---------------------------- MODULE Spec2Model ----------------------------
(* SAML 2.0 attribute query leg of a service provider:                     *)
(*   service_provider_attribute_query.go  (MakeAttributeQuery,             *)
(*     SignAttributeQuery, ParseXMLAttributeQueryResponse, AttributeQuery, *)
(*     GetAttributeQueryEndpoint)                                          *)
(*   schema_attribute_query.go            (AttributeQuery, Element,        *)
(*     SoapRequest)                                                        *)
(*                                                                         *)
(* Conventions.  A Go pointer or optional value is a sequence of length    *)
(* 0 (nil) or 1.  A Go string is a TLA+ string, "" included.  A time is a   *)
(* number of seconds.  An error value is a record carrying its dynamic     *)
(* type; ErrorString is its Error() method.                                *)
EXTENDS Integers, Sequences, FiniteSets, TLC

VARIABLES
    sp,         \* the shared *ServiceProvider configuration
    now,        \* the value TimeNow() returns
    pc,         \* per AttributeQuery call: position in the function
    aq,         \* per call: the local aq (nil until MakeAttributeQuery returned)
    made,       \* per call: the queries MakeAttributeQuery built, in order
    posted,     \* per call: the requests handed to client.Post, in order
    parsed,     \* per call: the invocations of ParseXMLAttributeQueryResponse
    http,       \* per call: what client.Post and the body read produced
    ret,        \* per call: the (assertion, error) pair returned (nil while running)
    pin,        \* a direct invocation of one function of the package: its arguments
    pout        \* ... and what it returned (nil before it ran)

vars == <<sp, now, pc, aq, made, posted, http, parsed, ret, pin, pout>>

(***************************************************************************)
(* Bounds of the model.                                                    *)
(***************************************************************************)
MaxTick   == 1      \* how far the clock advances beyond Epoch
Skew      == 1      \* IssueInstant values tried on each side of the freshness boundary
MaxDepth  == 2      \* nested StatusCode elements below the top-level one
NRandom   == 2      \* distinct values randomBytes can draw
MaxServices == 2    \* AttributeServices of one attribute authority descriptor
MaxDescriptors == 2 \* attribute authority descriptors of the metadata
MaxBuilds == 3      \* queries built one after the other

Epoch     == 1000   \* the clock's first value, in seconds

Calls == {"c1", "c2"}   \* the concurrent callers of AttributeQuery
Nil   == <<>>
Some(x) == <<x>>

(***************************************************************************)
(* Program constants.                                                      *)
(***************************************************************************)
MaxIssueDelay == 90
StatusSuccess == "urn:oasis:names:tc:SAML:2.0:status:Success"
SOAPBinding   == "urn:oasis:names:tc:SAML:2.0:bindings:SOAP"
OtherBinding  == "urn:oasis:names:tc:SAML:2.0:bindings:HTTP-POST"
ProtocolNS    == "urn:oasis:names:tc:SAML:2.0:protocol"


(***************************************************************************)
(* Errors.  fmt.Errorf without %w gives a plain error whose string is the  *)
(* formatted message; with %w the message embeds the wrapped error's       *)
(* string and keeps the wrapped error.                                     *)
(***************************************************************************)
Errorf(msg) == [type |-> "error", msg |-> msg]

ErrBadStatus(status) == [type |-> "ErrBadStatus", Status |-> status]

InvalidResponseError(t, response, private) ==
    [type |-> "InvalidResponseError", Now |-> t, Response |-> response,
     PrivateErr |-> private]

\* The Error() method of each error type.
ErrorString(e) ==
    CASE e.type = "InvalidResponseError" -> "invalid response"
      [] e.type = "ErrBadStatus"         -> e.Status
      [] OTHER                           -> e.msg

Wrapf(context, e) ==
    [type |-> "wrapError", msg |-> context \o ": " \o ErrorString(e), err |-> e]

(***************************************************************************)
(* randomBytes and the "%x" verb: a draw r of randomBytes(20) is the       *)
(* number its 20 bytes spell; "%x" prints it as 40 hex digits.             *)
(***************************************************************************)
HexDigits == <<"0", "1", "2", "3", "4", "5", "6", "7",
               "8", "9", "a", "b", "c", "d", "e", "f">>

RECURSIVE Hex(_, _)
Hex(r, width) ==
    IF width = 0 THEN ""
    ELSE Hex(r \div 16, width - 1) \o HexDigits[(r % 16) + 1]

randomBytes == 1..NRandom

\* variant: the last half byte drawn does not reach the ID
SprintfIDTruncated(r) == "id-" \o Hex(r \div 16, 40)

SprintfID(r) == "id-" \o Hex(r, 40)

IDs == {SprintfID(r) : r \in randomBytes}

(***************************************************************************)
(* The typed Response the structural unmarshal produces.  Status is the    *)
(* chain of StatusCode values, the top-level one first; the chain always   *)
(* has the top-level element (a struct, not a pointer).                    *)
(***************************************************************************)
IdPEntityID == "https://idp.example.com/metadata"
SPEntityID  == "https://sp.example.com/metadata"

TopCodes == {StatusSuccess,
             "urn:oasis:names:tc:SAML:2.0:status:Requester",
             "urn:oasis:names:tc:SAML:2.0:status:InvalidAttrNameOrValue"}
SubCodes == {"urn:oasis:names:tc:SAML:2.0:status:Requester",
             "urn:oasis:names:tc:SAML:2.0:status:InvalidAttrNameOrValue"}

RECURSIVE SeqsUpTo(_, _)
SeqsUpTo(S, n) ==
    IF n = 0 THEN {<<>>}
    ELSE LET shorter == SeqsUpTo(S, n - 1)
         IN  shorter \cup {Append(q, x) : q \in shorter, x \in S}

StatusChains == {<<top>> \o sub : top \in TopCodes, sub \in SeqsUpTo(SubCodes, MaxDepth)}

IssueInstants == (Epoch - MaxIssueDelay - Skew)..(Epoch - MaxIssueDelay + Skew)

Issuers == {Nil, Some([Value |-> IdPEntityID]), Some([Value |-> SPEntityID])}

\* Space is the namespace of the element (XMLName.Space)
Responses ==
    [Space : {ProtocolNS}, InResponseTo : IDs \cup {""}, IssueInstant : IssueInstants,
     Issuer : Issuers, Status : StatusChains]

\* the zero value of the Response struct: what the decoder leaves when the
\* Body carries no Response element
ZeroResponse ==
    [Space |-> "", InResponseTo |-> "", IssueInstant |-> 0, Issuer |-> Nil,
     Status |-> <<"">>]

(***************************************************************************)
(* The raw response bytes, described by what each parser makes of them:    *)
(*   wf    xrv.Validate accepts the bytes                                  *)
(*   env   xml.Unmarshal decodes them as a SOAP Envelope                   *)
(*   body  the child elements of the Body with local name Response, in     *)
(*         document order, each with its namespace                         *)
(*   tree  etree: "err" ReadFromBytes fails, "none" no element at          *)
(*         Envelope/Body/Response, "found" an element is located           *)
(*   deep  what validateXMLResponse makes of the response                  *)
(***************************************************************************)
Documents ==
    [wf : BOOLEAN, env : BOOLEAN,
     body : {<<>>} \cup {<<r>> : r \in Responses},
     tree : {"err", "none", "found"},
     deep : {"ok", "err", "errUpdated"}]

xrvValidate(raw) ==
    IF raw.wf THEN Nil ELSE Some(Errorf("validator: unexpected token"))

\* The decoder fills the one Response field from every Body child that has
\* the name and the namespace of Response.XMLName: what a later element
\* carries replaces what an earlier one left, what it lacks (an Issuer, a
\* nested StatusCode) stays.
RECURSIVE MergeStatus(_, _)
MergeStatus(old, new) ==
    IF new = <<>> THEN old
    ELSE IF old = <<>> THEN new
    ELSE <<Head(new)>> \o MergeStatus(Tail(old), Tail(new))

MergeResponse(old, new) ==
    [Space |-> new.Space,
     InResponseTo |-> new.InResponseTo,
     IssueInstant |-> new.IssueInstant,
     Issuer |-> IF new.Issuer # Nil THEN new.Issuer ELSE old.Issuer,
     Status |-> MergeStatus(old.Status, new.Status)]

RECURSIVE DecodeBody(_, _)
DecodeBody(resp, elements) ==
    IF elements = <<>> THEN resp
    ELSE DecodeBody(IF Head(elements).Space = ProtocolNS
                    THEN MergeResponse(resp, Head(elements))
                    ELSE resp,
                    Tail(elements))

xmlUnmarshal(raw) ==
    IF ~raw.env
    THEN [err |-> Some(Errorf("expected element type <Envelope>")),
          Response |-> ZeroResponse]
    ELSE [err |-> Nil, Response |-> DecodeBody(ZeroResponse, raw.body)]

ReadFromBytes(raw) ==
    IF raw.tree = "err" THEN Some(Errorf("XML syntax error")) ELSE Nil

\* an element with local name Response that is no child of the SOAP Body
\* the decoder read
ForeignResponse ==
    [Space |-> "", InResponseTo |-> "", IssueInstant |-> 0, Issuer |-> Nil,
     Status |-> <<"">>, foreign |-> TRUE]

\* doc.FindElement("Envelope/Body/Response"): the path compares local names
\* only and yields the first element it matches
FindElement(raw) ==
    IF raw.tree # "found" THEN Nil
    ELSE IF raw.body # <<>> THEN Some(raw.body[1])
    ELSE Some(ForeignResponse)

\* validateXMLResponse(resp, responseEl, possibleRequestIDs, now, true):
\* (assertion, updatedResponse, err)
validateXMLResponse(raw, resp, responseEl, requestIDs, t) ==
    CASE raw.deep = "ok" ->
            [assertion |-> Some([InResponseTo |-> resp.InResponseTo]),
             updatedResponse |-> Nil, err |-> Nil]
      [] raw.deep = "err" ->
            [assertion |-> Nil, updatedResponse |-> Nil,
             err |-> Some(Errorf("cannot validate signature on Response"))]
      [] OTHER ->
            [assertion |-> Nil, updatedResponse |-> Some([raw EXCEPT !.deep = "decrypted"]),
             err |-> Some(Errorf("assertion invalid"))]

(***************************************************************************)
(* The checks of ParseXMLAttributeQueryResponse on the typed Response.     *)
(***************************************************************************)
\* variant: an empty InResponseTo is let through
InResponseToMismatchUnlessEmpty(resp, requestID) ==
    resp.InResponseTo # "" /\ resp.InResponseTo # requestID

\* resp.InResponseTo != requestID
InResponseToMismatch(resp, requestID) == resp.InResponseTo # requestID

\* variant: !After(now) in place of Before(now)
IssueInstantExpiredInclusive(resp, t) == resp.IssueInstant + MaxIssueDelay <= t

\* resp.IssueInstant.Add(MaxIssueDelay).Before(now)
IssueInstantExpired(resp, t) == resp.IssueInstant + MaxIssueDelay < t

\* variant: compared with the service provider's own entity id
IssuerMismatchOwnEntityID(resp, s) ==
    /\ resp.Issuer # Nil
    /\ resp.Issuer[1].Value # s.EntityID

\* resp.Issuer != nil && resp.Issuer.Value != sp.IDPMetadata.EntityID
IssuerMismatch(resp, s) ==
    /\ resp.Issuer # Nil
    /\ resp.Issuer[1].Value # s.IDPMetadata.EntityID

\* resp.Status.StatusCode.Value != StatusSuccess
StatusNotSuccess(resp) == resp.Status[1] # StatusSuccess

\* variant: an if in place of the for, only the first sub-status is appended
AppendSubCodesOnce(status, codes) ==
    IF codes = <<>> THEN status ELSE status \o " " \o Head(codes)

\* the loop over code.StatusCode: status += fmt.Sprintf(" %s", code.Value)
RECURSIVE AppendSubCodes(_, _)
AppendSubCodes(status, codes) ==
    IF codes = <<>> THEN status
    ELSE AppendSubCodes(status \o " " \o Head(codes), Tail(codes))

BadStatus(resp) == ErrBadStatus(AppendSubCodes(resp.Status[1], Tail(resp.Status)))

(***************************************************************************)
(* ParseXMLAttributeQueryResponse(decodedResponseXML, requestID), run at   *)
(* time t on configuration s.  The result carries the returned pair and,   *)
(* as calls, the collaborators the function invoked, in order.             *)
(***************************************************************************)
\* variant: the cause itself is returned in place of retErr
FailedWithCause(t, response, private, calls) ==
    [assertion |-> Nil, err |-> Some(private), calls |-> calls]

Failed(t, response, private, calls) ==
    [assertion |-> Nil,
     err |-> Some(InvalidResponseError(t, response, private)),
     calls |-> calls]

\* variant: the error of validateXMLResponse is not looked at
DeepValidateUnchecked(s, raw, requestID, t, resp, responseEl, calls) ==
    LET v == validateXMLResponse(raw, resp, responseEl, {requestID}, t)
        cs == Append(calls, [fn |-> "validateXMLResponse",
                             resp |-> resp, responseEl |-> responseEl,
                             possibleRequestIDs |-> {requestID}, now |-> t])
    IN  [assertion |-> v.assertion, err |-> Nil, calls |-> cs]

\* variant: the updated response text of validateXMLResponse is dropped
DeepValidateKeepsRaw(s, raw, requestID, t, resp, responseEl, calls) ==
    LET v == validateXMLResponse(raw, resp, responseEl, {requestID}, t)
        cs == Append(calls, [fn |-> "validateXMLResponse",
                             resp |-> resp, responseEl |-> responseEl,
                             possibleRequestIDs |-> {requestID}, now |-> t])
    IN  IF v.err # Nil
        THEN Failed(t, raw, v.err[1], cs)
        ELSE [assertion |-> v.assertion, err |-> Nil, calls |-> cs]

DeepValidate(s, raw, requestID, t, resp, responseEl, calls) ==
    LET v == validateXMLResponse(raw, resp, responseEl, {requestID}, t)
        cs == Append(calls, [fn |-> "validateXMLResponse",
                             resp |-> resp, responseEl |-> responseEl,
                             possibleRequestIDs |-> {requestID}, now |-> t])
    IN  IF v.err # Nil
        THEN Failed(t, IF v.updatedResponse # Nil THEN v.updatedResponse[1] ELSE raw,
                    v.err[1], cs)
        ELSE [assertion |-> v.assertion, err |-> Nil, calls |-> cs]

LocateResponse(s, raw, requestID, t, resp, calls) ==
    LET c1 == Append(calls, [fn |-> "etree.ReadFromBytes"])
        c2 == Append(c1, [fn |-> "etree.FindElement"])
    IN  IF ReadFromBytes(raw) # Nil
        THEN Failed(t, raw, ReadFromBytes(raw)[1], c1)
        ELSE IF FindElement(raw) = Nil
        THEN Failed(t, raw, Errorf("missing inner Response"), c2)
        ELSE DeepValidate(s, raw, requestID, t, resp, FindElement(raw)[1], c2)

\* variant: the issuer is checked before the correlation and the freshness
ValidateResponseIssuerFirst(s, raw, requestID, t, resp, calls) ==
    LET c3 == Append(calls, [fn |-> "Issuer"])
        c4 == Append(c3, [fn |-> "InResponseTo"])
        c5 == Append(c4, [fn |-> "IssueInstant"])
        c6 == Append(c5, [fn |-> "Status"])
    IN  IF IssuerMismatch(resp, s)
        THEN Failed(t, raw,
                    Errorf("response Issuer does not match the IDP metadata (expected "
                           \o s.IDPMetadata.EntityID \o ")"), c3)
        ELSE IF InResponseToMismatch(resp, requestID)
        THEN Failed(t, raw,
                    Errorf("InResponseTo does not match the artifact request ID (expected "
                           \o requestID \o ")"), c4)
        ELSE IF IssueInstantExpired(resp, t)
        THEN Failed(t, raw,
                    Errorf("response IssueInstant expired at "
                           \o ToString(resp.IssueInstant + MaxIssueDelay)), c5)
        ELSE IF StatusNotSuccess(resp)
        THEN Failed(t, raw, BadStatus(resp), c6)
        ELSE LocateResponse(s, raw, requestID, t, resp, c6)

\* the four checks on the decoded Response, each entered in calls when it is
\* evaluated
ValidateResponse(s, raw, requestID, t, resp, calls) ==
    LET c3 == Append(calls, [fn |-> "InResponseTo"])
        c4 == Append(c3, [fn |-> "IssueInstant"])
        c5 == Append(c4, [fn |-> "Issuer"])
        c6 == Append(c5, [fn |-> "Status"])
    IN  IF InResponseToMismatch(resp, requestID)
        THEN Failed(t, raw,
                    Errorf("InResponseTo does not match the artifact request ID (expected "
                           \o requestID \o ")"), c3)
        ELSE IF IssueInstantExpired(resp, t)
        THEN Failed(t, raw,
                    Errorf("response IssueInstant expired at "
                           \o ToString(resp.IssueInstant + MaxIssueDelay)), c4)
        ELSE IF IssuerMismatch(resp, s)
        THEN Failed(t, raw,
                    Errorf("response Issuer does not match the IDP metadata (expected "
                           \o s.IDPMetadata.EntityID \o ")"), c5)
        ELSE IF StatusNotSuccess(resp)
        THEN Failed(t, raw, BadStatus(resp), c6)
        ELSE LocateResponse(s, raw, requestID, t, resp, c6)

ParseXMLAttributeQueryResponse(s, raw, requestID, t) ==
    LET c1 == <<[fn |-> "xrv.Validate"]>>
        c2 == Append(c1, [fn |-> "xml.Unmarshal"])
    IN  IF xrvValidate(raw) # Nil
        THEN Failed(t, raw,
                    Errorf("invalid xml: " \o ErrorString(xrvValidate(raw)[1])), c1)
        ELSE IF xmlUnmarshal(raw).err # Nil
        THEN Failed(t, raw,
                    Errorf("cannot unmarshal response: "
                           \o ErrorString(xmlUnmarshal(raw).err[1])), c2)
        ELSE ValidateResponse(s, raw, requestID, t, xmlUnmarshal(raw).Response, c2)

(***************************************************************************)
(* The service provider configuration.                                     *)
(***************************************************************************)
Service(binding, location) == [Binding |-> binding, Location |-> location]

\* IDPMetadata.AttributeAuthorityDescriptors: per descriptor its AttributeServices
AttributeAuthorities ==
    { <<>>,
      << <<Service(OtherBinding, "https://idp.example.com/post")>> >>,
      << <<Service(OtherBinding, "https://idp.example.com/post"),
           Service(SOAPBinding, "https://idp.example.com/soap")>>,
         <<Service(SOAPBinding, "https://idp.example.com/soap2")>> >> }

\* SignatureMethod with the signing key present or missing
Signing ==
    { [SignatureMethod |-> "", Key |-> Nil],
      [SignatureMethod |-> "http://www.w3.org/2001/04/xmldsig-more#rsa-sha256",
       Key |-> Some("sp-private-key")],
      [SignatureMethod |-> "http://www.w3.org/2001/04/xmldsig-more#rsa-sha256",
       Key |-> Nil] }

ServiceProviders ==
    { [EntityID |-> SPEntityID,
       MetadataURL |-> "https://sp.example.com/saml/metadata",
       IDPMetadata |-> [EntityID |-> IdPEntityID, AttributeAuthorityDescriptors |-> d],
       SignatureMethod |-> g.SignatureMethod,
       Key |-> g.Key] : d \in AttributeAuthorities, g \in Signing }

firstSet(a, b) == IF a # "" THEN a ELSE b

(***************************************************************************)
(* GetAttributeQueryEndpoint: the descriptors in order and, within each,   *)
(* the services in order.                                                  *)
(***************************************************************************)
RECURSIVE FirstSOAPLocation(_)
FirstSOAPLocation(services) ==
    IF services = <<>> THEN Nil
    ELSE IF Head(services).Binding = SOAPBinding
    THEN Some(Head(services).Location)
    ELSE FirstSOAPLocation(Tail(services))

RECURSIVE EndpointIn(_)
EndpointIn(descriptors) ==
    IF descriptors = <<>> THEN ""
    ELSE IF FirstSOAPLocation(Head(descriptors)) # Nil
    THEN FirstSOAPLocation(Head(descriptors))[1]
    ELSE EndpointIn(Tail(descriptors))

\* variant: the descriptors are scanned from the last one
GetAttributeQueryEndpointFromLast(s) ==
    LET d == s.IDPMetadata.AttributeAuthorityDescriptors
    IN  EndpointIn([i \in 1..Len(d) |-> d[Len(d) + 1 - i]])

GetAttributeQueryEndpoint(s) == EndpointIn(s.IDPMetadata.AttributeAuthorityDescriptors)

(***************************************************************************)
(* schema_attribute_query.go: Element and SoapRequest.                     *)
(***************************************************************************)
Attr(key, value) == [Key |-> key, Value |-> value]

Element(r) ==
    [Tag |-> "samlp:AttributeQuery",
     Attr |-> <<Attr("xmlns:saml", "urn:oasis:names:tc:SAML:2.0:assertion"),
                Attr("xmlns:samlp", "urn:oasis:names:tc:SAML:2.0:protocol"),
                Attr("ID", r.ID),
                Attr("Version", r.Version),
                Attr("IssueInstant", ToString(r.IssueInstant))>>
              \o (IF r.Destination # "" THEN <<Attr("Destination", r.Destination)>> ELSE <<>>)
              \o (IF r.Consent # "" THEN <<Attr("Consent", r.Consent)>> ELSE <<>>),
     Child |-> (IF r.Issuer # Nil THEN <<[Issuer |-> r.Issuer[1]]>> ELSE <<>>)
               \o (IF r.Signature # Nil THEN <<[Signature |-> r.Signature[1]]>> ELSE <<>>)
               \o (IF r.Subject # Nil THEN <<[Subject |-> r.Subject[1]]>> ELSE <<>>)
               \o [i \in 1..Len(r.Attributes) |-> [Attribute |-> r.Attributes[i]]]]

SoapRequest(r) ==
    [Tag |-> "soapenv:Envelope",
     Attr |-> <<Attr("xmlns:soapenv", "http://schemas.xmlsoap.org/soap/envelope/"),
                Attr("xmlns:xsi", "http://www.w3.org/2001/XMLSchema-instance")>>,
     Child |-> <<[Tag |-> "soapenv:Body", Attr |-> <<>>, Child |-> <<Element(r)>>]>>]

(***************************************************************************)
(* SignAttributeQuery.  keyOK: SignEnveloped succeeds.                     *)
(***************************************************************************)
GetSigningContext(s) ==
    IF s.Key = Nil
    THEN [ctx |-> Nil, err |-> Some(Errorf("signing key is missing"))]
    ELSE [ctx |-> s.Key, err |-> Nil]

\* the signed tree: the element with the signature as its last child
SignEnveloped(ctx, el, signOK) ==
    IF ~signOK
    THEN [el |-> Nil, err |-> Some(Errorf("cannot sign element"))]
    ELSE [el |-> Some([el EXCEPT !.Child =
                          Append(@, [SignedInfo |-> [Key |-> ctx[1], Covers |-> el]])]),
          err |-> Nil]

\* variant: the Signature field is cleared before the signing is attempted
SignAttributeQueryClearsFirst(s, req, signOK) ==
    LET cleared == [req EXCEPT !.Signature = Nil]
        c == GetSigningContext(s)
        signed == SignEnveloped(c.ctx, Element(cleared), signOK)
    IN  IF c.err # Nil THEN [req |-> cleared, err |-> c.err]
        ELSE IF signed.err # Nil THEN [req |-> cleared, err |-> signed.err]
        ELSE [req |-> [cleared EXCEPT !.Signature =
                          Some(signed.el[1].Child[Len(signed.el[1].Child)])],
              err |-> Nil]

SignAttributeQuery(s, req, signOK) ==
    LET c == GetSigningContext(s)
        signed == SignEnveloped(c.ctx, Element(req), signOK)
    IN  IF c.err # Nil THEN [req |-> req, err |-> c.err]
        ELSE IF signed.err # Nil THEN [req |-> req, err |-> signed.err]
        ELSE [req |-> [req EXCEPT !.Signature =
                          Some(signed.el[1].Child[Len(signed.el[1].Child)])],
              err |-> Nil]

(***************************************************************************)
(* MakeAttributeQuery(idpURL, nameID, attributes), with r the draw of      *)
(* randomBytes(20) and t the value of TimeNow().                           *)
(***************************************************************************)
NewAttributeQuery(s, idpURL, nameID, attributes, r, t) ==
    [ID |-> SprintfID(r),
     Version |-> "2.0",
     IssueInstant |-> t,
     Destination |-> idpURL,
     Consent |-> "",
     Issuer |-> Some([Format |-> "urn:oasis:names:tc:SAML:2.0:nameid-format:entity",
                      Value |-> firstSet(s.EntityID, s.MetadataURL)]),
     Signature |-> Nil,
     Subject |-> Some([NameID |-> Some(
                    [Format |-> "urn:oasis:names:tc:SAML:2.0:nameid-format:persistent",
                     Value |-> nameID,
                     NameQualifier |-> s.IDPMetadata.EntityID,
                     SPNameQualifier |-> firstSet(s.EntityID, s.MetadataURL)])]),
     Attributes |-> attributes]

\* variant: the query is signed whether or not a signature method is set
MakeAttributeQuerySignAlways(s, idpURL, nameID, attributes, r, t, signOK) ==
    LET q == NewAttributeQuery(s, idpURL, nameID, attributes, r, t)
        signed == SignAttributeQuery(s, q, signOK)
    IN  IF signed.err # Nil
        THEN [aq |-> Nil, built |-> <<q>>, signerCalls |-> <<q>>,
              err |-> Some(Wrapf("signing attribute query", signed.err[1]))]
        ELSE [aq |-> Some(signed.req), built |-> <<q>>, signerCalls |-> <<q>>,
              err |-> Nil]

\* built: the queries constructed; signerCalls: the arguments of the calls
\* of SignAttributeQuery
MakeAttributeQuery(s, idpURL, nameID, attributes, r, t, signOK) ==
    LET q == NewAttributeQuery(s, idpURL, nameID, attributes, r, t)
        signed == SignAttributeQuery(s, q, signOK)
    IN  IF Len(s.SignatureMethod) > 0
        THEN IF signed.err # Nil
             THEN [aq |-> Nil, built |-> <<q>>, signerCalls |-> <<q>>,
                   err |-> Some(Wrapf("signing attribute query", signed.err[1]))]
             ELSE [aq |-> Some(signed.req), built |-> <<q>>, signerCalls |-> <<q>>,
                   err |-> Nil]
        ELSE [aq |-> Some(q), built |-> <<q>>, signerCalls |-> <<>>, err |-> Nil]

(***************************************************************************)
(* AttributeQuery(nameID, attributes).                                     *)
(***************************************************************************)
NameIDs       == {"user@example.com"}
AttributeSets == {<<[Name |-> "eduPersonPrincipalName"]>>}

\* variant: the request is posted again
SOAPPostTwice(s, q) ==
    LET request == [url |-> GetAttributeQueryEndpoint(s), contentType |-> "text/xml",
                    body |-> SoapRequest(q)]
    IN  <<request, request>>

\* variant: the request goes to the first AttributeService of the metadata,
\* whatever its binding
SOAPPostAnyBinding(s, q) ==
    LET d == s.IDPMetadata.AttributeAuthorityDescriptors
    IN  <<[url |-> IF d = <<>> THEN "" ELSE d[1][1].Location,
           contentType |-> "text/xml", body |-> SoapRequest(q)]>>

\* client.Post(sp.GetAttributeQueryEndpoint(), "text/xml", &requestBuffer):
\* the requests one call of AttributeQuery puts on the wire for its query
SOAPPost(s, q) ==
    <<[url |-> GetAttributeQueryEndpoint(s), contentType |-> "text/xml",
       body |-> SoapRequest(q)]>>

\* variant: only the error classes of status codes are refused
NonOKStatusFrom400(code) == code >= 400

\* response.StatusCode != 200
NonOKStatus(code) == code # 200

\* variant: the expected id is left at its zero value
ExpectedRequestIDUnset(q) == ""

\* variant: the query is kept in a field shared by the calls, so a call reads
\* the query another call stored there last
ExpectedRequestIDShared(q) ==
    LET others == {c \in Calls : aq[c] # Nil /\ aq[c][1].ID # q.ID}
    IN  IF others = {} THEN q.ID ELSE aq[CHOOSE c \in others : TRUE][1].ID

\* the requestID argument of sp.ParseXMLAttributeQueryResponse(body, aq.ID)
ExpectedRequestID(q) == q.ID

Returned(assertion, err) == [assertion |-> assertion, err |-> err]

\* A response of the identity provider that passes every check for request id ...
GoodResponse(id) ==
    [wf |-> TRUE, env |-> TRUE,
     body |-> <<[Space |-> ProtocolNS, InResponseTo |-> id, IssueInstant |-> Epoch,
                 Issuer |-> Some([Value |-> IdPEntityID]),
                 Status |-> <<StatusSuccess>>]>>,
     tree |-> "found", deep |-> "ok"]

\* ... and the response bodies the model's HTTP peer sends: the good response
\* for each id, and for one id a response failing at each stage in turn
Bodies ==
    LET g == GoodResponse(SprintfID(1))
    IN  {GoodResponse(id) : id \in IDs \cup {""}}
        \cup { [g EXCEPT !.wf = FALSE],
               [g EXCEPT !.env = FALSE],
               [g EXCEPT !.body[1].IssueInstant = Epoch - MaxIssueDelay - 1],
               [g EXCEPT !.body[1].Issuer = Some([Value |-> SPEntityID])],
               [g EXCEPT !.body[1].Status =
                   <<"urn:oasis:names:tc:SAML:2.0:status:Requester">>],
               [g EXCEPT !.tree = "err"],
               [g EXCEPT !.tree = "none"],
               [g EXCEPT !.deep = "err"],
               [g EXCEPT !.deep = "errUpdated"] }

NoBody == [GoodResponse("") EXCEPT !.wf = FALSE]

StatusCodes == {200, 204, 500}

\* what the HTTP exchange gives: Post fails; or a status code, and for 200 the
\* outcome of io.ReadAll and the body read
HTTPOutcomes ==
    {[postErr |-> TRUE, StatusCode |-> 0, readErr |-> FALSE, body |-> NoBody]}
    \cup {[postErr |-> FALSE, StatusCode |-> code, readErr |-> FALSE, body |-> NoBody] :
            code \in StatusCodes \ {200}}
    \cup {[postErr |-> FALSE, StatusCode |-> 200, readErr |-> TRUE, body |-> NoBody]}
    \cup {[postErr |-> FALSE, StatusCode |-> 200, readErr |-> FALSE, body |-> b] :
            b \in Bodies}

\* lines 147-165: build (and sign) the query, serialise it, hand it to client.Post
AttributeQueryStart(c) ==
    /\ pc[c] = "idle"
    /\ \E nameID \in NameIDs, attributes \in AttributeSets,
          r \in randomBytes, signOK \in BOOLEAN :
         LET m == MakeAttributeQuery(sp, GetAttributeQueryEndpoint(sp), nameID,
                                     attributes, r, now, signOK)
         IN  /\ made' = [made EXCEPT ![c] = @ \o m.built]
             /\ IF m.err # Nil
                THEN /\ ret' = [ret EXCEPT ![c] =
                          Some(Returned(Nil, Some(Wrapf("making attribute query", m.err[1]))))]
                     /\ pc' = [pc EXCEPT ![c] = "done"]
                     /\ UNCHANGED <<aq, posted>>
                ELSE /\ aq' = [aq EXCEPT ![c] = m.aq]
                     /\ posted' = [posted EXCEPT ![c] = @ \o SOAPPost(sp, m.aq[1])]
                     /\ pc' = [pc EXCEPT ![c] = "posting"]
                     /\ UNCHANGED ret
    /\ UNCHANGED <<sp, now, http, parsed, pin, pout>>

\* lines 165-184: the outcome of the exchange, the body read and the validation
AttributeQueryFinish(c) ==
    /\ pc[c] = "posting"
    /\ \E o \in HTTPOutcomes :
         /\ http' = [http EXCEPT ![c] = Some(o)]
         /\ IF o.postErr
            THEN /\ ret' = [ret EXCEPT ![c] = Some(Returned(Nil,
                         Some(Wrapf("making SOAP post request", Errorf("connection refused")))))]
                 /\ UNCHANGED parsed
            ELSE IF NonOKStatus(o.StatusCode)
            THEN /\ ret' = [ret EXCEPT ![c] = Some(Returned(Nil,
                         Some(Errorf("non-OK status code: " \o ToString(o.StatusCode)))))]
                 /\ UNCHANGED parsed
            ELSE IF o.readErr
            THEN /\ ret' = [ret EXCEPT ![c] = Some(Returned(Nil,
                         Some(Wrapf("reading response body", Errorf("unexpected EOF")))))]
                 /\ UNCHANGED parsed
            ELSE LET id == ExpectedRequestID(aq[c][1])
                     p == ParseXMLAttributeQueryResponse(sp, o.body, id, now)
                 IN  /\ parsed' = [parsed EXCEPT ![c] =
                            Append(@, [raw |-> o.body, requestID |-> id, now |-> now,
                                       result |-> p])]
                     /\ ret' = [ret EXCEPT ![c] =
                            IF p.err # Nil
                            THEN Some(Returned(Nil,
                                   Some(Wrapf("parsing attribute query response", p.err[1]))))
                            ELSE Some(Returned(p.assertion, Nil))]
    /\ pc' = [pc EXCEPT ![c] = "done"]
    /\ UNCHANGED <<sp, now, aq, made, posted, pin, pout>>

\* the caller has the result; the locals of the call are gone
AttributeQueryReturn(c) ==
    /\ pc[c] = "done"
    /\ pc' = [pc EXCEPT ![c] = "idle"]
    /\ aq' = [aq EXCEPT ![c] = Nil]
    /\ made' = [made EXCEPT ![c] = <<>>]
    /\ posted' = [posted EXCEPT ![c] = <<>>]
    /\ http' = [http EXCEPT ![c] = Nil]
    /\ parsed' = [parsed EXCEPT ![c] = <<>>]
    /\ ret' = [ret EXCEPT ![c] = Nil]
    /\ UNCHANGED <<sp, now, pin, pout>>

\* TimeNow() moves on
Tick ==
    /\ now < Epoch + MaxTick
    /\ now' = now + 1
    /\ UNCHANGED <<sp, pc, aq, made, posted, http, parsed, ret, pin, pout>>

\* a caller invokes ParseXMLAttributeQueryResponse directly
ParseCall ==
    /\ pin # Nil
    /\ pout = Nil
    /\ pout' = Some(ParseXMLAttributeQueryResponse(sp, pin[1].raw, pin[1].requestID, now))
    /\ UNCHANGED <<sp, now, pc, aq, made, posted, http, parsed, ret, pin>>

NoCalls ==
    /\ pc = [c \in Calls |-> "idle"]
    /\ aq = [c \in Calls |-> Nil]
    /\ made = [c \in Calls |-> <<>>]
    /\ posted = [c \in Calls |-> <<>>]
    /\ http = [c \in Calls |-> Nil]
    /\ parsed = [c \in Calls |-> <<>>]
    /\ ret = [c \in Calls |-> Nil]

Init ==
    /\ sp \in ServiceProviders
    /\ now = Epoch
    /\ NoCalls
    /\ pin = Nil
    /\ pout = Nil

Next ==
    \/ \E c \in Calls : AttributeQueryStart(c)
    \/ \E c \in Calls : AttributeQueryFinish(c)
    \/ \E c \in Calls : AttributeQueryReturn(c)
    \/ Tick

Spec == Init /\ [][Next]_vars

\* ParseXMLAttributeQueryResponse on every document, request id and clock value
InitParse ==
    /\ sp \in {s \in ServiceProviders : s.SignatureMethod = "" /\
                 s.IDPMetadata.AttributeAuthorityDescriptors = <<>>}
    /\ now \in Epoch..(Epoch + MaxTick)
    /\ NoCalls
    /\ pin \in {Some([raw |-> d, requestID |-> id]) : d \in Documents, id \in IDs \cup {""}}
    /\ pout = Nil

NextParse == ParseCall

SpecParse == InitParse /\ [][NextParse]_vars

\* ParseXMLAttributeQueryResponse on well-formed envelopes whose Body has up
\* to two children with local name Response, in the protocol namespace or
\* in another one
BodyElements ==
    [Space : {ProtocolNS, "urn:example:other"}, InResponseTo : IDs,
     IssueInstant : {Epoch}, Issuer : {Nil, Some([Value |-> IdPEntityID])},
     Status : {<<StatusSuccess>>, <<"urn:oasis:names:tc:SAML:2.0:status:Requester">>}]

TwoResponseDocuments ==
    [wf : {TRUE}, env : {TRUE},
     body : SeqsUpTo(BodyElements, 2),
     tree : {"err", "none", "found"},
     deep : {"ok", "err", "errUpdated"}]

InitTwoParses ==
    /\ sp \in {s \in ServiceProviders : s.SignatureMethod = "" /\
                 s.IDPMetadata.AttributeAuthorityDescriptors = <<>>}
    /\ now \in Epoch..(Epoch + MaxTick)
    /\ NoCalls
    /\ pin \in {Some([raw |-> d, requestID |-> id]) :
                   d \in TwoResponseDocuments, id \in IDs}
    /\ pout = Nil

NextTwoParses == ParseCall

SpecTwoParses == InitTwoParses /\ [][NextTwoParses]_vars

\* MakeAttributeQuery on every configuration and argument
MakeCall ==
    /\ pin # Nil
    /\ pout = Nil
    /\ pout' = Some(MakeAttributeQuery(sp, pin[1].idpURL, pin[1].nameID,
                                       pin[1].attributes, pin[1].r, now, pin[1].signOK))
    /\ UNCHANGED <<sp, now, pc, aq, made, posted, http, parsed, ret, pin>>

RequestedAttributes ==
    {<<>>, <<[Name |-> "eduPersonPrincipalName"]>>,
     <<[Name |-> "eduPersonPrincipalName"], [Name |-> "mail"]>>}

InitMake ==
    /\ sp \in ServiceProviders
    /\ now \in Epoch..(Epoch + MaxTick)
    /\ NoCalls
    /\ pin \in {Some([idpURL |-> u, nameID |-> n, attributes |-> a, r |-> r,
                      signOK |-> k]) :
                   u \in {"", "https://idp.example.com/soap", "https://idp.example.com/soap2"},
                   n \in {"user@example.com", ""},
                   a \in RequestedAttributes, r \in randomBytes, k \in BOOLEAN}
    /\ pout = Nil

NextMake == MakeCall

SpecMake == InitMake /\ [][NextMake]_vars

\* SignAttributeQuery called on a query, fresh from MakeAttributeQuery's
\* literal or carrying the Signature of an earlier signing, and the query
\* then serialised and posted as AttributeQuery does
SignCall ==
    /\ pin # Nil
    /\ pout = Nil
    /\ pout' = Some(SignAttributeQuery(sp, pin[1].req, pin[1].signOK))
    /\ UNCHANGED <<sp, now, pc, aq, made, posted, http, parsed, ret, pin>>

SerializeCall ==
    /\ pout # Nil
    /\ pout[1].err = Nil
    /\ posted["c1"] = <<>>
    /\ posted' = [posted EXCEPT !["c1"] = SOAPPost(sp, pout[1].req)]
    /\ UNCHANGED <<sp, now, pc, aq, made, http, parsed, ret, pin, pout>>

EarlierSignature ==
    [SignedInfo |-> [Key |-> "sp-private-key", Covers |-> [Tag |-> "samlp:AttributeQuery"]]]

InitSign ==
    /\ sp \in ServiceProviders
    /\ now \in Epoch..(Epoch + MaxTick)
    /\ NoCalls
    /\ pin \in {Some([req |-> [NewAttributeQuery(sp, GetAttributeQueryEndpoint(sp), n, a, r, now)
                                  EXCEPT !.Signature = g],
                      signOK |-> k]) :
                   n \in {"user@example.com", ""}, a \in RequestedAttributes,
                   r \in randomBytes, g \in {Nil, Some(EarlierSignature)},
                   k \in BOOLEAN}
    /\ pout = Nil

NextSign == SignCall \/ SerializeCall

SpecSign == InitSign /\ [][NextSign]_vars

\* GetAttributeQueryEndpoint on metadata of up to MaxDescriptors attribute
\* authority descriptors with up to MaxServices services each; a service
\* read from metadata that gives no Location has the empty string there
EndpointCall ==
    /\ pout = Nil
    /\ pout' = Some([endpoint |-> GetAttributeQueryEndpoint(sp)])
    /\ UNCHANGED <<sp, now, pc, aq, made, posted, http, parsed, ret, pin>>

AttributeServices ==
    {Service(SOAPBinding, l) :
        l \in {"", "https://idp.example.com/soap", "https://idp.example.com/soap2"}}
    \cup {Service(OtherBinding, "https://idp.example.com/post")}

InitEndpoint ==
    /\ sp \in {[EntityID |-> SPEntityID,
                 MetadataURL |-> "https://sp.example.com/saml/metadata",
                 IDPMetadata |-> [EntityID |-> IdPEntityID,
                                  AttributeAuthorityDescriptors |-> d],
                 SignatureMethod |-> "", Key |-> Nil] :
                   d \in SeqsUpTo(SeqsUpTo(AttributeServices, MaxServices), MaxDescriptors)}
    /\ now = Epoch
    /\ NoCalls
    /\ pin = Nil
    /\ pout = Nil

NextEndpoint == EndpointCall

SpecEndpoint == InitEndpoint /\ [][NextEndpoint]_vars

\* MakeAttributeQuery called again and again; pout is the history of the
\* calls, each with the bytes randomBytes drew for it
BuildNext ==
    /\ Len(pout) < MaxBuilds
    /\ \E r \in randomBytes, k \in BOOLEAN :
         LET args == [idpURL |-> GetAttributeQueryEndpoint(sp),
                      nameID |-> "user@example.com",
                      attributes |-> <<[Name |-> "eduPersonPrincipalName"]>>,
                      r |-> r, signOK |-> k]
         IN  /\ pin' = Some(args)
             /\ pout' = Append(pout,
                    [r |-> r,
                     result |-> MakeAttributeQuery(sp, args.idpURL, args.nameID,
                                                   args.attributes, r, now, k)])
    /\ UNCHANGED <<sp, now, pc, aq, made, posted, http, parsed, ret>>

InitBuilds ==
    /\ sp \in ServiceProviders
    /\ now = Epoch
    /\ NoCalls
    /\ pin = Nil
    /\ pout = <<>>

NextBuilds == BuildNext \/ Tick

SpecBuilds == InitBuilds /\ [][NextBuilds]_vars

(***************************************************************************)
(* Properties of ParseXMLAttributeQueryResponse, under SpecParse.          *)
(***************************************************************************)
Ran == pout # Nil

\* the Response the structural decode yields for the input
InputResponse == IF pin[1].raw.body = <<>> THEN ZeroResponse ELSE pin[1].raw.body[1]

Decoded == pin[1].raw.wf /\ pin[1].raw.env

\* the text of the private cause of the returned error ("" when none)
CauseText ==
    IF pout[1].err = Nil THEN ""
    ELSE IF pout[1].err[1].type # "InvalidResponseError" THEN ""
    ELSE ErrorString(pout[1].err[1].PrivateErr)

InvokedValidator == \E i \in DOMAIN pout[1].calls : pout[1].calls[i].fn = "validateXMLResponse"

CorrelationCause ==
    "InResponseTo does not match the artifact request ID (expected "
        \o pin[1].requestID \o ")"

ExpiredCause ==
    "response IssueInstant expired at " \o ToString(InputResponse.IssueInstant + 90)

IssuerCause ==
    "response Issuer does not match the IDP metadata (expected " \o IdPEntityID \o ")"

\* C1: whenever ParseXMLAttributeQueryResponse fails, at whatever stage and
\* on whatever input, the error is an InvalidResponseError and its public
\* string is the literal "invalid response".
C1_ErrorOpacity ==
    (Ran /\ pout[1].err # Nil) =>
        /\ pout[1].err[1].type = "InvalidResponseError"
        /\ ErrorString(pout[1].err[1]) = "invalid response"

\* a signature failure in the delegated validation of an otherwise valid response
C1_Witness ==
    /\ Ran
    /\ pout[1].err # Nil
    /\ CauseText = "cannot validate signature on Response"
    /\ InvokedValidator

\* C2: a decoded response whose InResponseTo differs from the expected
\* request id fails with the correlation cause, whatever its other fields;
\* the delegated validator is not invoked and no Assertion is returned.
C2_CorrelationExactness ==
    (Ran /\ Decoded /\ InputResponse.InResponseTo # pin[1].requestID) =>
        /\ pout[1].assertion = Nil
        /\ pout[1].err # Nil
        /\ CauseText = CorrelationCause
        /\ ~InvokedValidator

\* a mismatching response that is also expired, from the wrong issuer and
\* carries a failure status
C2_Witness ==
    /\ Ran /\ Decoded
    /\ pin[1].raw.body # <<>>
    /\ InputResponse.InResponseTo # pin[1].requestID
    /\ InputResponse.InResponseTo # ""
    /\ InputResponse.IssueInstant + MaxIssueDelay < now
    /\ InputResponse.Issuer = Some([Value |-> SPEntityID])
    /\ InputResponse.Status[1] # StatusSuccess
    /\ CauseText = CorrelationCause

ReachedFreshness == Decoded /\ InputResponse.InResponseTo = pin[1].requestID

\* C3: a response that reaches the freshness stage is rejected there exactly
\* when more than MaxIssueDelay lies between IssueInstant and now;
\* IssueInstant = now - MaxIssueDelay - 1 is rejected, now - MaxIssueDelay passes.
C3_FreshnessBoundary ==
    (Ran /\ ReachedFreshness) =>
        /\ (CauseText = ExpiredCause) <=> (now - InputResponse.IssueInstant > MaxIssueDelay)
        /\ InputResponse.IssueInstant = now - MaxIssueDelay - 1 => CauseText = ExpiredCause
        /\ InputResponse.IssueInstant >= now - MaxIssueDelay => CauseText # ExpiredCause

\* the response issued exactly MaxIssueDelay ago is accepted
C3_Witness ==
    /\ Ran /\ ReachedFreshness
    /\ InputResponse.IssueInstant = now - MaxIssueDelay
    /\ pout[1].err = Nil

ReachedIssuer == ReachedFreshness /\ ~(now - InputResponse.IssueInstant > MaxIssueDelay)

\* C4: at the issuer stage a declared Issuer other than the identity
\* provider's entity id is rejected without the delegated validator being
\* invoked; no Issuer, or the entity id itself, passes the stage.
C4_IssuerBinding ==
    (Ran /\ ReachedIssuer) =>
        /\ (InputResponse.Issuer # Nil /\ InputResponse.Issuer[1].Value # IdPEntityID) =>
              /\ pout[1].err # Nil
              /\ pout[1].assertion = Nil
              /\ CauseText = IssuerCause
              /\ ~InvokedValidator
        /\ (InputResponse.Issuer = Nil \/ InputResponse.Issuer = Some([Value |-> IdPEntityID])) =>
              CauseText # IssuerCause

\* a response of another issuer whose signature would verify
C4_Witness ==
    /\ Ran /\ ReachedIssuer
    /\ InputResponse.Issuer = Some([Value |-> SPEntityID])
    /\ InputResponse.Status = <<StatusSuccess>>
    /\ pin[1].raw.tree = "found"
    /\ pin[1].raw.deep = "ok"
    /\ CauseText = IssuerCause

ReachedStatus ==
    /\ ReachedIssuer
    /\ (InputResponse.Issuer = Nil \/ InputResponse.Issuer = Some([Value |-> IdPEntityID]))

\* the codes of a chain, outermost first, with one space between neighbours
RECURSIVE JoinSpace(_)
JoinSpace(codes) ==
    IF Len(codes) = 1 THEN codes[1]
    ELSE codes[1] \o " " \o JoinSpace(Tail(codes))

\* C5: at the status stage a top-level code other than Success is rejected
\* with an ErrBadStatus whose Status is the whole chain of codes, outermost
\* first, space separated, while the public string stays "invalid
\* response"; a top-level Success passes whatever the nested codes.
C5_StatusPropagation ==
    (Ran /\ ReachedStatus) =>
        /\ InputResponse.Status[1] # StatusSuccess =>
              /\ pout[1].err # Nil
              /\ pout[1].assertion = Nil
              /\ pout[1].err[1].type = "InvalidResponseError"
              /\ pout[1].err[1].PrivateErr =
                    [type |-> "ErrBadStatus", Status |-> JoinSpace(InputResponse.Status)]
              /\ ErrorString(pout[1].err[1]) = "invalid response"
        /\ InputResponse.Status =
              <<"urn:oasis:names:tc:SAML:2.0:status:Requester",
                "urn:oasis:names:tc:SAML:2.0:status:InvalidAttrNameOrValue">> =>
              CauseText = "urn:oasis:names:tc:SAML:2.0:status:Requester urn:oasis:names:tc:SAML:2.0:status:InvalidAttrNameOrValue"
        /\ InputResponse.Status[1] = StatusSuccess =>
              (pout[1].err = Nil \/ pout[1].err[1].PrivateErr.type # "ErrBadStatus")

\* a failure status with two nested sub-status codes
C5_Witness ==
    /\ Ran /\ ReachedStatus
    /\ Len(InputResponse.Status) = 3
    /\ InputResponse.Status[1] = "urn:oasis:names:tc:SAML:2.0:status:Requester"
    /\ InputResponse.Status[2] # InputResponse.Status[3]
    /\ pout[1].err # Nil
    /\ pout[1].err[1].PrivateErr.type = "ErrBadStatus"

\* the stages in the order of the function
StageOrder ==
    <<"xrv.Validate", "xml.Unmarshal", "InResponseTo", "IssueInstant", "Issuer",
      "Status", "etree.ReadFromBytes", "etree.FindElement", "validateXMLResponse">>

\* the input violates the condition of stage i
Violates(i) ==
    CASE i = 1 -> ~pin[1].raw.wf
      [] i = 2 -> ~pin[1].raw.env
      [] i = 3 -> InputResponse.InResponseTo # pin[1].requestID
      [] i = 4 -> now - InputResponse.IssueInstant > MaxIssueDelay
      [] i = 5 -> InputResponse.Issuer \notin {Nil, Some([Value |-> IdPEntityID])}
      [] i = 6 -> InputResponse.Status[1] # StatusSuccess
      [] i = 7 -> pin[1].raw.tree = "err"
      [] i = 8 -> pin[1].raw.tree # "found"
      [] OTHER -> pin[1].raw.deep # "ok"

\* the private cause a failure of stage i leaves
StageCause(i) ==
    CASE i = 1 -> "invalid xml: validator: unexpected token"
      [] i = 2 -> "cannot unmarshal response: expected element type <Envelope>"
      [] i = 3 -> CorrelationCause
      [] i = 4 -> ExpiredCause
      [] i = 5 -> IssuerCause
      [] i = 6 -> JoinSpace(InputResponse.Status)
      [] i = 7 -> "XML syntax error"
      [] i = 8 -> "missing inner Response"
      [] OTHER -> IF pin[1].raw.deep = "err"
                  THEN "cannot validate signature on Response"
                  ELSE "assertion invalid"

Violated == {i \in 1..9 : Violates(i)}

Earliest == CHOOSE i \in Violated : \A j \in Violated : i <= j

\* C14: the stages are evaluated in the fixed order, none skipped; the
\* evaluation stops at the earliest stage whose condition the input
\* violates and the private cause is the one of that stage; the delegated
\* validator is invoked only when every earlier stage passed.
C14_StageOrder ==
    Ran =>
        /\ Len(pout[1].calls) <= 9
        /\ \A i \in DOMAIN pout[1].calls : pout[1].calls[i].fn = StageOrder[i]
        /\ IF Violated = {}
           THEN pout[1].err = Nil /\ Len(pout[1].calls) = 9
           ELSE /\ pout[1].err # Nil
                /\ Len(pout[1].calls) = Earliest
                /\ CauseText = StageCause(Earliest)
        /\ InvokedValidator => \A i \in 1..8 : ~Violates(i)

\* an expired response of the wrong issuer with a failure status, without a
\* Response in the tree and with a bad signature: refused as expired
C14_Witness ==
    /\ Ran
    /\ Violated = 4..9
    /\ CauseText = ExpiredCause
    /\ Len(pout[1].calls) = 4

\* the stage at which the call stopped: the last collaborator or check entered
LastStage == pout[1].calls[Len(pout[1].calls)].fn

\* the text the failing stage gives as its cause
StageCauseText ==
    CASE LastStage = "xrv.Validate" -> "invalid xml: validator: unexpected token"
      [] LastStage = "xml.Unmarshal" ->
             "cannot unmarshal response: expected element type <Envelope>"
      [] LastStage = "InResponseTo" -> CorrelationCause
      [] LastStage = "IssueInstant" -> ExpiredCause
      [] LastStage = "Issuer" -> IssuerCause
      [] LastStage = "Status" ->
             JoinSpace(InputResponse.Status)
      [] LastStage = "etree.ReadFromBytes" -> "XML syntax error"
      [] LastStage = "etree.FindElement" -> "missing inner Response"
      [] OTHER -> IF pin[1].raw.deep = "err"
                  THEN "cannot validate signature on Response"
                  ELSE "assertion invalid"

\* C16, under SpecParse: the error of a failed call carries the raw input as
\* Response, except that a delegated-validation failure which supplied an
\* updated response text carries that text; PrivateErr is the cause of the
\* stage that failed; Now is the one time read at the start of the call, the
\* one the freshness check compared against and the one passed to the
\* delegated validator.
C16_ErrorContent ==
    (Ran /\ pout[1].err # Nil) =>
        LET e == pout[1].err[1] IN
        /\ e.type = "InvalidResponseError"
        /\ e.Response = IF LastStage = "validateXMLResponse" /\
                            pin[1].raw.deep = "errUpdated"
                         THEN [pin[1].raw EXCEPT !.deep = "decrypted"]
                         ELSE pin[1].raw
        /\ "type" \in DOMAIN e.PrivateErr
        /\ ErrorString(e.PrivateErr) = StageCauseText
        /\ e.Now = now
        /\ (LastStage = "IssueInstant" =>
                InputResponse.IssueInstant + MaxIssueDelay < e.Now)
        /\ (\E i \in DOMAIN pout[1].calls : pout[1].calls[i].fn = "Issuer") =>
                ~(InputResponse.IssueInstant + MaxIssueDelay < e.Now)
        /\ \A i \in DOMAIN pout[1].calls :
              pout[1].calls[i].fn = "validateXMLResponse" =>
                  pout[1].calls[i].now = e.Now

\* a delegated-validation failure that supplied an updated response text
C16_Witness ==
    /\ Ran
    /\ pout[1].err # Nil
    /\ InvokedValidator
    /\ pin[1].raw.deep = "errUpdated"
    /\ pout[1].err[1].Response = [pin[1].raw EXCEPT !.deep = "decrypted"]
    /\ pout[1].err[1].Now = now

\* a depth at which a guard on the walk would cut the chains drawn here
DepthGuard == MaxDepth - 1

\* C17 (as claimed), under SpecParse: on a non-success status the walk over
\* the nested sub-status codes is cut off by a maximum-depth guard, so the
\* diagnostic string holds the top-level code and at most DepthGuard
\* sub-codes however deep the chain of the response is.
C17_DepthGuard ==
    (Ran /\ pout[1].err # Nil /\ LastStage = "Status") =>
        \E k \in 0..DepthGuard :
            /\ k < Len(InputResponse.Status)
            /\ pout[1].err[1].PrivateErr.Status =
                   JoinSpace(SubSeq(InputResponse.Status, 1, 1 + k))

\* the typed Response resp is the decoding of the element el alone
DecodedFrom(resp, el) ==
    /\ el.Space = ProtocolNS
    /\ "foreign" \notin DOMAIN el
    /\ resp = MergeResponse(ZeroResponse, el)

\* C15 (as claimed), under SpecTwoParses: whenever the delegated validator
\* is invoked, the typed Response that was checked and the element the tree
\* walk located are the same Response element; a body with several Response
\* elements, or one matched by local name only, is refused without the
\* delegated validator being invoked.
C15_ParsesAgree ==
    Ran =>
        /\ \A i \in DOMAIN pout[1].calls :
              pout[1].calls[i].fn = "validateXMLResponse" =>
                  DecodedFrom(pout[1].calls[i].resp, pout[1].calls[i].responseEl)
        /\ (Len(pin[1].raw.body) > 1 \/
             \E i \in DOMAIN pin[1].raw.body : pin[1].raw.body[i].Space # ProtocolNS) =>
                  pout[1].err # Nil /\ ~InvokedValidator

(***************************************************************************)
(* Properties of AttributeQuery, under Spec.                               *)
(***************************************************************************)
\* every stage of the validation passes on raw for the expected id at time t
PassesAllStages(raw, requestID, t) ==
    /\ raw.wf /\ raw.env /\ raw.body # <<>>
    /\ raw.body[1].InResponseTo = requestID
    /\ t - raw.body[1].IssueInstant <= MaxIssueDelay
    /\ raw.body[1].Issuer \in {Nil, Some([Value |-> sp.IDPMetadata.EntityID])}
    /\ raw.body[1].Status[1] = StatusSuccess
    /\ raw.tree = "found"
    /\ raw.deep = "ok"

ExactlyOne(pair) == (pair.assertion = Nil) # (pair.err = Nil)

\* C6: ParseXMLAttributeQueryResponse and AttributeQuery return either an
\* Assertion and no error or an error and no Assertion; an Assertion is
\* returned only for a response that passed every stage and that the
\* delegated validation accepted.
C6_NoPartialAssertion ==
    \A c \in Calls :
        /\ \A i \in DOMAIN parsed[c] :
              /\ ExactlyOne(parsed[c][i].result)
              /\ parsed[c][i].result.assertion # Nil =>
                    PassesAllStages(parsed[c][i].raw, parsed[c][i].requestID,
                                    parsed[c][i].now)
        /\ ret[c] # Nil =>
              /\ ExactlyOne(ret[c][1])
              /\ ret[c][1].assertion # Nil =>
                    /\ Len(parsed[c]) = 1
                    /\ parsed[c][1].result.assertion = ret[c][1].assertion
                    /\ parsed[c][1].result.err = Nil

\* one call returned an Assertion while the other failed in the delegated validation
C6_Witness ==
    /\ ret["c1"] # Nil /\ ret["c1"][1].assertion # Nil
    /\ ret["c2"] # Nil /\ ret["c2"][1].err # Nil
    /\ parsed["c2"] # <<>>
    /\ parsed["c2"][1].raw.deep = "err"
    /\ PassesAllStages([parsed["c2"][1].raw EXCEPT !.deep = "ok"],
                       parsed["c2"][1].requestID, parsed["c2"][1].now)

\* the ID attribute of the AttributeQuery element inside a posted SOAP request
PostedID(request) ==
    LET attrs == request.body.Child[1].Child[1].Attr
    IN  attrs[CHOOSE i \in DOMAIN attrs : attrs[i].Key = "ID"].Value

\* C7: the expected request id a call hands to
\* ParseXMLAttributeQueryResponse is the ID of the query that same call
\* built and posted, under every interleaving of the calls.
C7_CorrelationBinding ==
    \A c \in Calls : \A i \in DOMAIN parsed[c] :
        /\ Len(made[c]) = 1 /\ Len(posted[c]) = 1
        /\ parsed[c][i].requestID = made[c][1].ID
        /\ parsed[c][i].requestID = PostedID(posted[c][1])

\* two calls in flight with different ids; the first was answered with the
\* response meant for the second and refused it
C7_Witness ==
    /\ parsed["c1"] # <<>>
    /\ pc["c2"] = "posting"
    /\ made["c1"][1].ID # made["c2"][1].ID
    /\ parsed["c1"][1].raw = GoodResponse(made["c2"][1].ID)
    /\ ret["c1"][1].assertion = Nil

\* C8 (as claimed): with no SOAP attribute service in the metadata,
\* AttributeQuery fails before a query is built and before a POST is attempted.
C8_MissingEndpointFailsFirst ==
    GetAttributeQueryEndpoint(sp) = "" =>
        \A c \in Calls : made[c] = <<>> /\ posted[c] = <<>>

\* C9: ParseXMLAttributeQueryResponse is invoked only on the body of a
\* response with status 200 that was read completely; a failed POST or any
\* other status makes the call return an error with the validator never invoked.
C9_NonOKBypassesValidator ==
    \A c \in Calls :
        /\ parsed[c] # <<>> =>
              /\ http[c] # Nil
              /\ ~http[c][1].postErr
              /\ http[c][1].StatusCode = 200
              /\ ~http[c][1].readErr
              /\ parsed[c][1].raw = http[c][1].body
        /\ (http[c] # Nil /\ (http[c][1].postErr \/ http[c][1].StatusCode # 200)) =>
              /\ parsed[c] = <<>>
              /\ ret[c] # Nil
              /\ ret[c][1].assertion = Nil
              /\ ret[c][1].err # Nil
              /\ ret[c][1].err[1].type # "InvalidResponseError"
              /\ ~http[c][1].postErr =>
                    ErrorString(ret[c][1].err[1]) =
                        "non-OK status code: " \o ToString(http[c][1].StatusCode)

\* a 204 answer: refused without the validator
C9_Witness ==
    /\ http["c1"] # Nil
    /\ http["c1"][1].StatusCode = 204
    /\ ret["c1"] # Nil
    /\ parsed["c1"] = <<>>

\* C10: one call of AttributeQuery builds at most one query and posts at
\* most once, also after a failure.
C10_NoRetry ==
    \A c \in Calls :
        /\ Len(made[c]) <= 1
        /\ Len(posted[c]) <= 1
        /\ Len(parsed[c]) <= 1

\* a call that posted once, was refused by the validator and returned
C10_Witness ==
    /\ pc["c1"] = "done"
    /\ ret["c1"][1].err # Nil
    /\ parsed["c1"] # <<>>
    /\ Len(posted["c1"]) = 1
    /\ Len(made["c1"]) = 1

\* what AttributeQuery returns for the query q and the HTTP outcome o at
\* time t on configuration s when it runs alone
SoloOutcome(s, q, o, t) ==
    IF o.postErr
    THEN Returned(Nil, Some(Wrapf("making SOAP post request", Errorf("connection refused"))))
    ELSE IF o.StatusCode # 200
    THEN Returned(Nil, Some(Errorf("non-OK status code: " \o ToString(o.StatusCode))))
    ELSE IF o.readErr
    THEN Returned(Nil, Some(Wrapf("reading response body", Errorf("unexpected EOF"))))
    ELSE LET p == ParseXMLAttributeQueryResponse(s, o.body, q.ID, t)
         IN  IF p.err # Nil
             THEN Returned(Nil, Some(Wrapf("parsing attribute query response", p.err[1])))
             ELSE Returned(p.assertion, Nil)

LocalsOf(c) == <<pc[c], aq[c], made[c], posted[c], http[c], parsed[c], ret[c]>>

\* C11: no step writes the shared configuration, a step of one call leaves
\* the locals of every other call alone, and the result of a call is the
\* one its own query, its own HTTP outcome and the clock give when the call
\* runs alone, whatever the other call is doing.
C11_Stateless ==
    [][ /\ sp' = sp
        /\ \A c \in Calls :
              /\ pc'[c] = pc[c] => LocalsOf(c)' = LocalsOf(c)
              /\ (pc[c] = "posting" /\ pc'[c] = "done") =>
                    ret'[c] = Some(SoloOutcome(sp, made[c][1] , http'[c][1], now))
              /\ (pc[c] = "posting" /\ pc'[c] = "done") =>
                    made[c][1].ID = aq[c][1].ID
      ]_vars

\* the second call was started before the first one finished, with another
\* id; the first call was answered with the good response for its own id
C11_Witness ==
    /\ pc["c1"] = "done" /\ pc["c2"] = "posting"
    /\ parsed["c1"] # <<>>
    /\ made["c2"][1].IssueInstant < parsed["c1"][1].now
    /\ made["c1"][1].ID # made["c2"][1].ID
    /\ parsed["c1"][1].raw = GoodResponse(made["c1"][1].ID)
    /\ ret["c1"][1].assertion # Nil

(***************************************************************************)
(* Properties of MakeAttributeQuery, under SpecMake.                       *)
(***************************************************************************)
\* the error the Signer gives for the configuration and the signing outcome
SignerError ==
    IF sp.Key = Nil THEN Some(Errorf("signing key is missing"))
    ELSE IF ~pin[1].signOK THEN Some(Errorf("cannot sign element"))
    ELSE Nil

\* C12: with a signature method the Signer is invoked once, on the query
\* just built, and its failure makes MakeAttributeQuery return no query and
\* the Signer's error wrapped under "signing attribute query"; without one
\* the Signer is not invoked and the query carries no Signature.  A returned
\* query has Version "2.0" and the idpURL argument as Destination.
C12_ConditionalSigning ==
    Ran =>
        /\ sp.SignatureMethod # "" =>
              /\ pout[1].signerCalls = pout[1].built
              /\ Len(pout[1].signerCalls) = 1
              /\ SignerError # Nil =>
                    /\ pout[1].aq = Nil
                    /\ pout[1].err # Nil
                    /\ pout[1].err[1].type = "wrapError"
                    /\ pout[1].err[1].err = SignerError[1]
                    /\ ErrorString(pout[1].err[1]) =
                          "signing attribute query: " \o ErrorString(SignerError[1])
              /\ SignerError = Nil =>
                    /\ pout[1].err = Nil
                    /\ pout[1].aq # Nil
                    /\ pout[1].aq[1].Signature # Nil
        /\ sp.SignatureMethod = "" =>
              /\ pout[1].signerCalls = <<>>
              /\ pout[1].err = Nil
              /\ pout[1].aq # Nil
              /\ pout[1].aq[1].Signature = Nil
        /\ pout[1].aq # Nil =>
              /\ pout[1].aq[1].Version = "2.0"
              /\ pout[1].aq[1].Destination = pin[1].idpURL

\* the key is there but the signature operation fails
C12_Witness ==
    /\ Ran
    /\ sp.SignatureMethod # ""
    /\ sp.Key # Nil
    /\ ~pin[1].signOK
    /\ pout[1].aq = Nil
    /\ ErrorString(pout[1].err[1]) = "signing attribute query: cannot sign element"

\* the element with its Signature child taken out
WithoutSignature(el) ==
    [el EXCEPT !.Child = SelectSeq(@, LAMBDA ch : "Signature" \notin DOMAIN ch)]

\* the AttributeQuery element inside the posted SOAP envelope
WireElement == posted["c1"][1].body.Child[1].Child[1]

\* C18, under SpecSign: SignAttributeQuery changes the Signature field of
\* the query and no other; when it returns an error the query is what it
\* was; and for a query signed as MakeAttributeQuery signs it, the element
\* posted, its Signature child removed, is the element that was signed.
C18_SignedQueryNotMutated ==
    Ran =>
        /\ [pout[1].req EXCEPT !.Signature = Nil] = [pin[1].req EXCEPT !.Signature = Nil]
        /\ pout[1].err # Nil => pout[1].req = pin[1].req
        /\ pout[1].err = Nil =>
              /\ pout[1].req.Signature # Nil
              /\ pout[1].req.Signature[1].SignedInfo.Covers = Element(pin[1].req)
        /\ (posted["c1"] # <<>> /\ pin[1].req.Signature = Nil) =>
              /\ Len(posted["c1"]) = 1
              /\ WithoutSignature(WireElement) =
                    pout[1].req.Signature[1].SignedInfo.Covers
              /\ WireElement # WithoutSignature(WireElement)

\* a freshly built query is signed and posted
C18_Witness ==
    /\ Ran
    /\ pin[1].req.Signature = Nil
    /\ pout[1].err = Nil
    /\ posted["c1"] # <<>>
    /\ Len(pin[1].req.Attributes) = 2
    /\ WithoutSignature(WireElement) = Element(pin[1].req)

\* every AttributeService of the metadata, descriptor after descriptor
RECURSIVE Flatten(_)
Flatten(descriptors) ==
    IF descriptors = <<>> THEN <<>>
    ELSE Head(descriptors) \o Flatten(Tail(descriptors))

AllServices == Flatten(sp.IDPMetadata.AttributeAuthorityDescriptors)

SOAPServices == {i \in DOMAIN AllServices : AllServices[i].Binding = SOAPBinding}

FirstSOAPService == CHOOSE i \in SOAPServices : \A j \in SOAPServices : i <= j

\* C19 (as claimed), under SpecEndpoint: the result is the Location of the
\* first service with the SOAP binding, and it is the empty string if and
\* only if no service of any descriptor has the SOAP binding.
C19_EmptyIffNoSOAPService ==
    Ran =>
        /\ SOAPServices # {} =>
              pout[1].endpoint = AllServices[FirstSOAPService].Location
        /\ pout[1].endpoint = "" <=> SOAPServices = {}

\* C19 (amended), under SpecEndpoint: the result is the Location of the
\* first service with the SOAP binding in metadata order, whatever that
\* Location is; it is the empty string exactly when no service has the SOAP
\* binding or the first that has it has an empty Location; a result other
\* than the empty string is the Location of a service with the SOAP binding.
C19_FirstSOAPLocation ==
    Ran =>
        /\ SOAPServices # {} =>
              pout[1].endpoint = AllServices[FirstSOAPService].Location
        /\ SOAPServices = {} => pout[1].endpoint = ""
        /\ pout[1].endpoint = "" <=>
              (SOAPServices = {} \/ AllServices[FirstSOAPService].Location = "")
        /\ pout[1].endpoint # "" =>
              /\ \E i \in SOAPServices : AllServices[i].Location = pout[1].endpoint
              /\ \A i \in DOMAIN AllServices :
                    AllServices[i].Binding # SOAPBinding =>
                        AllServices[i].Location # pout[1].endpoint

\* the first SOAP service stands in the second descriptor, behind a service
\* with another binding, and a later SOAP service has another Location
C19_Witness ==
    /\ Ran
    /\ Len(sp.IDPMetadata.AttributeAuthorityDescriptors) = 2
    /\ sp.IDPMetadata.AttributeAuthorityDescriptors[1] =
          <<Service(OtherBinding, "https://idp.example.com/post")>>
    /\ sp.IDPMetadata.AttributeAuthorityDescriptors[2] =
          <<Service(SOAPBinding, "https://idp.example.com/soap2"),
            Service(SOAPBinding, "https://idp.example.com/soap")>>
    /\ pout[1].endpoint = "https://idp.example.com/soap2"

\* the values of the Destination attribute of the AttributeQuery element in
\* a posted request
WireDestinations(request) ==
    LET attrs == request.body.Child[1].Child[1].Attr
    IN  {attrs[k].Value : k \in {j \in DOMAIN attrs : attrs[j].Key = "Destination"}}

\* C20, under Spec: every request a call of AttributeQuery posts goes to the
\* URL that the query of that call carries as Destination, in its field, in
\* the element on the wire and in the element its Signature covers.
C20_DestinationIsPostTarget ==
    \A c \in Calls : \A i \in DOMAIN posted[c] :
        /\ aq[c] # Nil
        /\ posted[c][i].url = aq[c][1].Destination
        /\ WireDestinations(posted[c][i]) =
              IF posted[c][i].url = "" THEN {} ELSE {posted[c][i].url}
        /\ aq[c][1].Signature # Nil =>
              aq[c][1].Signature[1].SignedInfo.Covers.Attr =
                  posted[c][i].body.Child[1].Child[1].Attr

\* a signed query posted to the SOAP endpoint of the metadata
C20_Witness ==
    /\ posted["c1"] # <<>>
    /\ aq["c1"] # Nil
    /\ aq["c1"][1].Signature # Nil
    /\ posted["c1"][1].url = "https://idp.example.com/soap"
    /\ aq["c1"][1].Destination = "https://idp.example.com/soap"

(***************************************************************************)
(* Properties of the query IDs, under SpecBuilds.                          *)
(***************************************************************************)
BuiltID(i) == pout[i].result.built[1].ID

=============================================================================
